---- MODULE Spec2Model ----
(***************************************************************************)
(* A model of PER_IS_ReplayBuffer of src/learn/utils.py: the prioritised,  *)
(* importance-sampled ring buffer over a sum tree and a min tree; and of   *)
(* the plain ReplayBuffer of the same file.                                *)
(*                                                                         *)
(* Numbers.  Priorities, alpha and beta are naturals, so the trees hold    *)
(* integer-valued floats.  A float keeps MantBits significant bits: every  *)
(* sum, difference, product and power is rounded to that many bits, ties   *)
(* to even (Fl), as IEEE arithmetic rounds to 53.  Below 2^MantBits the    *)
(* arithmetic is exact.  A prefix sum is a fraction n / d with d a power   *)
(* of two, which has the significand of n.  float('inf') is the number     *)
(* Inf, larger than every leaf.  The quotients of sample (probabilities    *)
(* and weights) are kept as exact fractions <<n, d>>; a weight is then     *)
(* rounded to the SingleBits significant bits of the float32 array that    *)
(* sample returns (Single), as numpy rounds to 24.                         *)
(***************************************************************************)
EXTENDS Integers, Sequences, FiniteSets, TLC

VARIABLES
    capacity,       \* self.capacity
    alpha,          \* self.alpha
    priority_sum,   \* self.priority_sum : list of 2 * capacity numbers
    priority_min,   \* self.priority_min : list of 2 * capacity numbers
    max_priority,   \* self.max_priority
    data,           \* self.data : the five columns, read row by row
    next_idx,       \* self.next_idx
    size,           \* self.size
    op,             \* the call that returned last
    ret,            \* what that call returned
    pushed,         \* history: the transitions passed to push, in order
    max_passed,     \* history: the largest priority passed to update_priorities
                    \* so far (0 before the first)
    rb              \* a ReplayBuffer: its capacity, buffer and position

vars == <<capacity, alpha, priority_sum, priority_min, max_priority, data,
          next_idx, size, op, ret, pushed, max_passed, rb>>

----------------------------------------------------------------------------
(* Bounds of the model.                                                    *)

MaxCapacity == 4
MaxPriority == 2
MaxPushes == 5
MantBits == 10
SingleBits == 4
RandomBits == 2
PBits == 1

Capacities == 1..MaxCapacity
Alphas == {0, 1, 2}
Betas == {0, 1, 2}
Priorities == 0..MaxPriority

\* The lengths of the lists passed to update_priorities: a longer list acts
\* as its pairs passed one call after the other.
UpdateLengths == {0, 1}

\* The batch sizes asked of sample: the draws of a batch are independent.
BatchSizes == {0, 1}

----------------------------------------------------------------------------
(* Numbers.                                                                *)

\* float('inf'): above every value a leaf can hold.
Inf == 1000000

\* Python's built-in min and max on two numbers.
Min2(a, b) == IF b < a THEN b ELSE a
Max2(a, b) == IF b > a THEN b ELSE a

\* The largest number of a non-empty finite set.
Largest(S) == CHOOSE x \in S : \A y \in S : y <= x

\* p ** a in the integers; 0 ** 0 is 1, as in Python.
RECURSIVE Pow(_, _)
Pow(p, a) == IF a = 0 THEN 1 ELSE p * Pow(p, a - 1)

\* The number of low bits a float drops from the natural x.
RECURSIVE DroppedBits(_)
DroppedBits(x) ==
    IF x < Pow(2, MantBits) THEN 0 ELSE 1 + DroppedBits(x \div 2)

\* The float nearest to the natural x: MantBits significant bits, ties to
\* the even significand.
Fl(x) ==
    LET s == Pow(2, DroppedBits(x))
        q == x \div s
        r == x % s
    IN IF 2 * r < s THEN q * s
       ELSE IF 2 * r > s THEN (q + 1) * s
       ELSE IF q % 2 = 0 THEN q * s ELSE (q + 1) * s

\* Mutant of FPow: 0 ** 0 is taken as 0.
FPowZeroBase(p, a) == IF p = 0 THEN 0 ELSE Fl(Pow(p, a))

\* Python's float ** with a natural exponent.
FPow(p, a) == Fl(Pow(p, a))

\* random.random() is u / RandomGrid; the prefix sums the properties range
\* over are the floats k / PDen.
RandomGrid == Pow(2, RandomBits)
PDen == Pow(2, PBits)

RECURSIVE Gcd(_, _)
Gcd(a, b) == IF b = 0 THEN a ELSE Gcd(b, a % b)

\* The fraction n / d in lowest terms (d > 0).
Frac(n, d) == LET g == Gcd(n, d) IN <<n \div g, d \div g>>

\* x * k for a fraction x and a natural k.
FracTimes(x, k) == Frac(x[1] * k, x[2])

\* x / y for fractions x, y with y # 0 (common factors taken out first).
FracDiv(x, y) ==
    LET g1 == Gcd(x[1], y[1])
        g2 == Gcd(x[2], y[2])
    IN Frac((x[1] \div g1) * (y[2] \div g2), (x[2] \div g2) * (y[1] \div g1))

\* Mutant of FracPowNeg: the exponent is taken as -1.
FracPowNegOne(x, b) == Frac(x[2], x[1])

\* x ** (-b) for a fraction x # 0 and a natural b.
FracPowNeg(x, b) == Frac(Pow(x[2], b), Pow(x[1], b))

\* The least k with n * 2^k >= 2^(SingleBits - 1) * d, for n > 0.
RECURSIVE SingleShift(_, _)
SingleShift(n, d) ==
    IF n >= Pow(2, SingleBits - 1) * d THEN 0 ELSE 1 + SingleShift(2 * n, d)

\* The float32 nearest to the fraction x, 0 <= x < 2^SingleBits: SingleBits
\* significant bits, ties to the even significand.
Single(x) ==
    IF x[1] = 0 THEN <<0, 1>>
    ELSE LET s == Pow(2, SingleShift(x[1], x[2]))
             q == (x[1] * s) \div x[2]
             r == (x[1] * s) % x[2]
             m == IF 2 * r < x[2] THEN q
                  ELSE IF 2 * r > x[2] THEN q + 1
                  ELSE IF q % 2 = 0 THEN q ELSE q + 1
         IN Frac(m, s)

FracLe(x, y) == x[1] * y[2] <= y[1] * x[2]
FracLt(x, y) == x[1] * y[2] < y[1] * x[2]

----------------------------------------------------------------------------
(* Transitions and the dtypes of the five columns.                         *)

\* numpy's float32 of an integer-valued float: exact up to 2^24; between
\* 2^24 and 2^25 the spacing is 2 and ties go to the even significand.
Float32(x) ==
    IF x <= 16777216 THEN x
    ELSE LET q == x \div 2
         IN IF x % 2 = 0 THEN x
            ELSE IF q % 2 = 0 THEN 2 * q ELSE 2 * (q + 1)

\* numpy's int32 of an action index (every integer here is in int32's range).
Int32(a) == a

\* The row the assignments of push leave in slot idx of the five columns.
StoredRow(t) ==
    [obs |-> t.obs, action |-> Int32(t.action), reward |-> Float32(t.reward),
     next_obs |-> t.next_obs, done |-> t.done]

\* np.zeros: the row of a slot that was never written.
ZeroRow ==
    [obs |-> <<0, 0, 0>>, action |-> 0, reward |-> 0,
     next_obs |-> <<0, 0, 0>>, done |-> FALSE]

\* The transitions the environment hands to push.
TrA == [obs |-> <<1, 1, 1>>, action |-> 1, reward |-> 1,
        next_obs |-> <<1, 1, 2>>, done |-> FALSE]
TrB == [obs |-> <<1, 1, 2>>, action |-> 2, reward |-> 0,
        next_obs |-> <<0, 0, 0>>, done |-> TRUE]
TrC == [obs |-> <<2, 1, 1>>, action |-> 3, reward |-> 16777217,
        next_obs |-> <<1, 1, 1>>, done |-> FALSE]

Transitions == {TrA, TrB, TrC}

----------------------------------------------------------------------------
(* What a call returns.                                                    *)

None == [kind |-> "None"]
IntValue(v) == [kind |-> "int", val |-> v]
BoolValue(v) == [kind |-> "bool", val |-> v]
Raised(e) == [kind |-> "raise", exc |-> e]

----------------------------------------------------------------------------
(* ReplayBuffer: a Python list used as a ring.  The list is a function on  *)
(* 0 .. len - 1.                                                           *)

ListLen(l) == Cardinality(DOMAIN l)

\* list.append
ListAppend(l, x) ==
    [i \in 0..ListLen(l) |-> IF i < ListLen(l) THEN l[i] ELSE x]

\* ReplayBuffer.__init__
ReplayBuffer_init(cap) == [capacity |-> cap, buffer |-> <<>>, position |-> 0]

\* Mutant of ShouldAppend: <= for <.
ShouldAppendAtCapacity(b) == ListLen(b.buffer) <= b.capacity

\* Line 25: the list grows while it is shorter than capacity.
ShouldAppend(b) == ListLen(b.buffer) < b.capacity

\* ReplayBuffer.push on the object b: the object it leaves.
ReplayBuffer_pushed(b, t) ==
    LET grown == IF ShouldAppend(b) THEN ListAppend(b.buffer, None)
                 ELSE b.buffer
    IN [capacity |-> b.capacity,
        buffer   |-> [grown EXCEPT ![b.position] = t],
        position |-> (b.position + 1) % b.capacity]

ReplayBuffer_push(t) ==
    /\ Len(pushed) < MaxPushes
    /\ rb' = ReplayBuffer_pushed(rb, t)
    /\ op' = "ReplayBuffer.push"
    /\ ret' = None
    /\ pushed' = Append(pushed, t)
    /\ UNCHANGED <<capacity, alpha, priority_sum, priority_min, max_priority,
                   data, next_idx, size, max_passed>>

\* ReplayBuffer.sample_with_indices, random.sample having drawn indices (a
\* sequence without repetition, or too long for the list): the state
\* column of the batch and the indices.  zip(*batch) of an empty batch
\* yields nothing to unpack.
sample_with_indices(indices) ==
    /\ op' = "ReplayBuffer.sample_with_indices"
    /\ ret' = IF Len(indices) > ListLen(rb.buffer) \/ Len(indices) = 0
              THEN Raised("ValueError")
              ELSE [kind |-> "state_indices",
                    state |-> [j \in 1..Len(indices) |->
                                  rb.buffer[indices[j]].obs],
                    indices |-> indices]
    /\ UNCHANGED <<capacity, alpha, priority_sum, priority_min, max_priority,
                   data, next_idx, size, pushed, max_passed, rb>>

\* ReplayBuffer.__len__
ReplayBuffer_len ==
    /\ op' = "ReplayBuffer.len"
    /\ ret' = IntValue(ListLen(rb.buffer))
    /\ UNCHANGED <<capacity, alpha, priority_sum, priority_min, max_priority,
                   data, next_idx, size, pushed, max_passed, rb>>

----------------------------------------------------------------------------
(* PER_IS_ReplayBuffer.__init__                                            *)

InitBuffer(cap, a) ==
    /\ capacity = cap
    /\ alpha = a
    /\ priority_sum = [i \in 0..(2 * cap - 1) |-> 0]
    /\ priority_min = [i \in 0..(2 * cap - 1) |-> Inf]
    /\ max_priority = 1
    /\ data = [i \in 0..(cap - 1) |-> ZeroRow]
    /\ next_idx = 0
    /\ size = 0
    /\ op = "init"
    /\ ret = None
    /\ pushed = <<>>
    /\ max_passed = 0

----------------------------------------------------------------------------
(* The two trees.                                                          *)

\* Mutant of WalkMin: the right child is left out of the minimum.
RECURSIVE WalkMinLeftChild(_, _)
WalkMinLeftChild(tree, idx) ==
    IF idx >= 2
    THEN LET i == idx \div 2
         IN WalkMinLeftChild([tree EXCEPT ![i] = Min2(tree[2 * i], tree[2 * i])], i)
    ELSE tree

\* The while loop of _set_priority_min, from node idx up to the root.
RECURSIVE WalkMin(_, _)
WalkMin(tree, idx) ==
    IF idx >= 2
    THEN LET i == idx \div 2
         IN WalkMin([tree EXCEPT ![i] = Min2(tree[2 * i], tree[2 * i + 1])], i)
    ELSE tree

\* Mutant of _set_priority_min: idx += capacity is forgotten.
SetPriorityMinAtSlot(tree, idx, priority_alpha) ==
    WalkMin([tree EXCEPT ![idx] = priority_alpha], idx)

_set_priority_min(tree, idx, priority_alpha) ==
    LET leaf == idx + capacity
    IN WalkMin([tree EXCEPT ![leaf] = priority_alpha], leaf)

\* Mutant of WalkSum: the loop stops one level below the root.
RECURSIVE WalkSumStopsEarly(_, _)
WalkSumStopsEarly(tree, idx) ==
    IF idx > 3
    THEN LET i == idx \div 2
         IN WalkSumStopsEarly([tree EXCEPT ![i] = Fl(tree[2 * i] + tree[2 * i + 1])], i)
    ELSE tree

\* The while loop of _set_priority_sum, from node idx up to the root.
RECURSIVE WalkSum(_, _)
WalkSum(tree, idx) ==
    IF idx >= 2
    THEN LET i == idx \div 2
         IN WalkSum([tree EXCEPT ![i] = Fl(tree[2 * i] + tree[2 * i + 1])], i)
    ELSE tree

_set_priority_sum(tree, idx, priority_alpha) ==
    LET leaf == idx + capacity
    IN WalkSum([tree EXCEPT ![leaf] = priority_alpha], leaf)

_sum == priority_sum[1]

_min == priority_min[1]

\* Mutant of Descend: the left sum is not taken off on the way right.
RECURSIVE DescendNoSubtract(_, _, _, _)
DescendNoSubtract(ps, idx, n, d) ==
    IF idx < capacity
    THEN IF ps[idx * 2] * d > n
         THEN DescendNoSubtract(ps, 2 * idx, n, d)
         ELSE DescendNoSubtract(ps, 2 * idx + 1, n, d)
    ELSE idx - capacity

\* find_prefix_sum_idx for the prefix sum n / d, on the sum tree ps.
RECURSIVE Descend(_, _, _, _)
Descend(ps, idx, n, d) ==
    IF idx < capacity
    THEN IF ps[idx * 2] * d > n
         THEN Descend(ps, 2 * idx, n, d)
         ELSE Descend(ps, 2 * idx + 1, Fl(n - ps[idx * 2] * d), d)
    ELSE idx - capacity

find_prefix_sum_idx(n, d) == Descend(priority_sum, 1, n, d)

----------------------------------------------------------------------------
(* PER_IS_ReplayBuffer.push                                                *)

\* Mutant of WriteSlot: the cursor is advanced before the write.
WriteSlotAfterAdvance == (next_idx + 1) % capacity

\* Line 113: the slot push writes.
WriteSlot == next_idx

\* Mutant of AdvanceCursor: the cursor does not wrap.
AdvanceCursorNoWrap(idx) == idx + 1

\* Line 120: the cursor after a write at idx.
AdvanceCursor(idx) == (idx + 1) % capacity

\* Mutant of GrowSize: the size is not capped.
GrowSizeUncapped(s) == s + 1

\* Line 121: the size after a write.
GrowSize(s) == Min2(capacity, s + 1)

\* Mutant of SeedPriority: the exponent is forgotten.
SeedPriorityNoAlpha == max_priority

\* Line 123: the priority a pushed transition enters with.
SeedPriority == FPow(max_priority, alpha)

push(t) ==
    /\ Len(pushed) < MaxPushes
    /\ LET idx == WriteSlot
           priority_alpha == SeedPriority
       IN /\ data' = [data EXCEPT ![idx] = StoredRow(t)]
          /\ next_idx' = AdvanceCursor(idx)
          /\ size' = GrowSize(size)
          /\ priority_min' = _set_priority_min(priority_min, idx, priority_alpha)
          /\ priority_sum' = _set_priority_sum(priority_sum, idx, priority_alpha)
    /\ op' = "push"
    /\ ret' = None
    /\ pushed' = Append(pushed, t)
    /\ UNCHANGED <<capacity, alpha, max_priority, max_passed, rb>>

----------------------------------------------------------------------------
(* PER_IS_ReplayBuffer.update_priorities                                   *)

\* Python's zip of two lists.
Zip(xs, ys) ==
    [i \in 1..Min2(Len(xs), Len(ys)) |-> <<xs[i], ys[i]>>]

\* Mutant of UpdateOne: max_priority is assigned, not raised.
UpdateOneAssign(st, idx, priority) ==
    LET priority_alpha == FPow(priority, alpha)
    IN [mp   |-> priority,
        pmin |-> _set_priority_min(st.pmin, idx, priority_alpha),
        psum |-> _set_priority_sum(st.psum, idx, priority_alpha)]

\* One pass of the for loop, on the state st = [mp, pmin, psum].
UpdateOne(st, idx, priority) ==
    LET priority_alpha == FPow(priority, alpha)
    IN [mp   |-> Max2(st.mp, priority),
        pmin |-> _set_priority_min(st.pmin, idx, priority_alpha),
        psum |-> _set_priority_sum(st.psum, idx, priority_alpha)]

\* Mutant of UpdateLoop: the pairs are applied last to first.
RECURSIVE UpdateLoopBackwards(_, _)
UpdateLoopBackwards(pairs, st) ==
    IF pairs = <<>> THEN st
    ELSE UpdateOne(UpdateLoopBackwards(Tail(pairs), st),
                   Head(pairs)[1], Head(pairs)[2])

\* The for loop over the zipped pairs, in order.
RECURSIVE UpdateLoop(_, _)
UpdateLoop(pairs, st) ==
    IF pairs = <<>> THEN st
    ELSE UpdateLoop(Tail(pairs), UpdateOne(st, Head(pairs)[1], Head(pairs)[2]))

\* What the loop leaves, started on the buffer as it is.
UpdateResult(indexes, priorities) ==
    UpdateLoop(Zip(indexes, priorities),
               [mp |-> max_priority, pmin |-> priority_min,
                psum |-> priority_sum])

update_priorities(indexes, priorities) ==
    LET st == UpdateResult(indexes, priorities)
    IN /\ max_priority' = st.mp
       /\ priority_min' = st.pmin
       /\ priority_sum' = st.psum
       /\ op' = "update_priorities"
       /\ ret' = None
       /\ max_passed' = Largest({max_passed} \cup
                                 {priorities[i] : i \in 1..Len(priorities)})
       /\ UNCHANGED <<capacity, alpha, data, next_idx, size, pushed, rb>>

----------------------------------------------------------------------------
(* PER_IS_ReplayBuffer.sample                                              *)

\* Mutant of Weight: the weight is not divided by max_weight.
WeightUnnormalised(idx, beta, max_weight) ==
    LET prob == Frac(priority_sum[idx + capacity], _sum)
        base == FracTimes(prob, size)
    IN IF base[1] = 0 /\ beta > 0
       THEN Raised("ZeroDivisionError")
       ELSE [kind |-> "float", val |-> Single(FracPowNeg(base, beta))]

\* The importance weight of the slot idx, as lines 175-177 compute it and
\* store it in the float32 array; the sum is not 0 and max_weight is a
\* fraction.  A power of 0 with a negative exponent raises ZeroDivisionError.
Weight(idx, beta, max_weight) ==
    LET prob == Frac(priority_sum[idx + capacity], _sum)
        base == FracTimes(prob, size)
    IN IF base[1] = 0 /\ beta > 0
       THEN Raised("ZeroDivisionError")
       ELSE [kind |-> "float",
             val |-> Single(FracDiv(FracPowNeg(base, beta), max_weight))]

\* Lines 170-182 of sample, for the indexes the first loop drew.
SampleWeights(indexes, beta) ==
    LET batch_size == Len(indexes)
    IN IF _sum = 0
       THEN Raised("ZeroDivisionError")            \* prob_min = min / 0
       ELSE LET prob_min == Frac(_min, _sum)
                base == FracTimes(prob_min, size)
            IN IF base[1] = 0 /\ beta > 0
               THEN Raised("ZeroDivisionError")    \* 0.0 ** (-beta)
               ELSE LET max_weight == FracPowNeg(base, beta)
                        ws == [i \in 1..batch_size |->
                                  Weight(indexes[i], beta, max_weight)]
                    IN IF \E i \in 1..batch_size : ws[i].kind = "raise"
                       THEN Raised("ZeroDivisionError")
                       ELSE [kind |-> "samples",
                             indexes |-> indexes,
                             weights |-> [i \in 1..batch_size |-> ws[i].val],
                             rows |-> [i \in 1..batch_size |-> data[indexes[i]]]]

\* The body of sample, the draws of random.random() being us[i] / uden.
SampleResult(us, uden, beta) ==
    SampleWeights([i \in 1..Len(us) |->
                      find_prefix_sum_idx(Fl(us[i] * _sum), uden)], beta)

\* Mutant of sample: the leaves of the slots drawn are set to 0, as a
\* sampler without replacement does.
sample_removing(us, uden, beta) ==
    /\ op' = "sample"
    /\ ret' = SampleResult(us, uden, beta)
    /\ priority_sum' =
          IF ret'.kind = "samples" /\ Len(ret'.indexes) > 0
          THEN _set_priority_sum(priority_sum, ret'.indexes[1], 0)
          ELSE priority_sum
    /\ UNCHANGED <<capacity, alpha, priority_min, max_priority,
                   data, next_idx, size, pushed, max_passed, rb>>

sample(us, uden, beta) ==
    /\ op' = "sample"
    /\ ret' = SampleResult(us, uden, beta)
    /\ UNCHANGED <<capacity, alpha, priority_sum, priority_min, max_priority,
                   data, next_idx, size, pushed, max_passed, rb>>

----------------------------------------------------------------------------
(* PER_IS_ReplayBuffer.find_prefix_sum_idx, called from outside, for the   *)
(* prefix sum n / d.                                                       *)

find_prefix_sum_idx_call(n, d) ==
    /\ op' = "find_prefix_sum_idx"
    /\ ret' = IntValue(find_prefix_sum_idx(n, d))
    /\ UNCHANGED <<capacity, alpha, priority_sum, priority_min, max_priority,
                   data, next_idx, size, pushed, max_passed, rb>>

----------------------------------------------------------------------------
(* PER_IS_ReplayBuffer.is_full and __len__                                 *)

is_full ==
    /\ op' = "is_full"
    /\ ret' = BoolValue(capacity = size)
    /\ UNCHANGED <<capacity, alpha, priority_sum, priority_min, max_priority,
                   data, next_idx, size, pushed, max_passed, rb>>

len ==
    /\ op' = "len"
    /\ ret' = IntValue(size)
    /\ UNCHANGED <<capacity, alpha, priority_sum, priority_min, max_priority,
                   data, next_idx, size, pushed, max_passed, rb>>

----------------------------------------------------------------------------
(* The buffer under every sequence of the calls that write or read the     *)
(* trees; is_full and __len__ are called on the ring below.                *)

\* The sequences over S of length n.
SeqsOfLen(S, n) == [1..n -> S]

\* update_priorities on lists of (index, priority) pairs, the indexes those
\* of occupied slots and the priorities from Ps.
UpdateCalls(Ps) ==
    \E n \in UpdateLengths :
       \E indexes \in SeqsOfLen(0..(size - 1), n),
          priorities \in SeqsOfLen(Ps, n) :
             update_priorities(indexes, priorities)

\* update_priorities on two lists whose lengths, from Ls, need not agree.
UpdateCallsOf(Ls, Ps) ==
    \E n \in Ls, m \in Ls :
       \E indexes \in SeqsOfLen(0..(size - 1), n),
          priorities \in SeqsOfLen(Ps, m) :
             update_priorities(indexes, priorities)

\* sample, the draws of random.random() being the u / uden with u in Us.
SampleCalls(Us, uden) ==
    \E n \in BatchSizes, beta \in Betas :
       \E us \in SeqsOfLen(Us, n) :
          sample(us, uden, beta)

Init == \E cap \in Capacities, a \in Alphas : InitBuffer(cap, a) /\ rb = ReplayBuffer_init(1)

Next ==
    \/ push(TrA)
    \/ UpdateCalls(Priorities)
    \/ SampleCalls(0..(RandomGrid - 1), RandomGrid)

Spec == Init /\ [][Next]_vars

\* The ring under every transition the environment can hand over, with
\* alpha = 0 (every leaf is 1, whatever the priority).
InitRing == \E cap \in Capacities : InitBuffer(cap, 0) /\ rb = ReplayBuffer_init(1)

NextRing ==
    \/ \E t \in Transitions : push(t)
    \/ UpdateCalls(Priorities)
    \/ is_full
    \/ len

SpecRing == InitRing /\ [][NextRing]_vars

\* The buffer of the reference scenario: capacity 4, priorities up to 4,
\* and the scenario's one call on all four slots.
InitScenario == \E a \in {1, 2} : InitBuffer(4, a) /\ rb = ReplayBuffer_init(1)

ScenarioUpdate ==
    /\ size = 4
    /\ update_priorities(<<0, 1, 2, 3>>, <<1, 2, 3, 4>>)

NextScenario ==
    \/ push(TrA)
    \/ UpdateCalls(1..4)
    \/ ScenarioUpdate

SpecScenario == InitScenario /\ [][NextScenario]_vars

\* The buffer on priorities whose sums no float holds: 3 and the float four
\* below 2^(MantBits + 1), with random.random() at full resolution at its
\* least, middle and largest value.
BigPriority == Pow(2, MantBits + 1) - 4

InitRounding == InitBuffer(4, 1) /\ rb = ReplayBuffer_init(1)

NextRounding ==
    \/ push(TrA)
    \/ UpdateCalls({0, 3, BigPriority})
    \/ SampleCalls({0, Pow(2, MantBits - 1), Pow(2, MantBits) - 1},
                   Pow(2, MantBits))

SpecRounding == InitRounding /\ [][NextRounding]_vars

\* The buffer under update_priorities on lists of up to two entries, which
\* can name a slot twice.
ListLengths == {0, 1, 2}

InitUpdate == \E cap \in {2, 3}, a \in {1, 2} : InitBuffer(cap, a) /\ rb = ReplayBuffer_init(1)

NextUpdate ==
    \/ push(TrA)
    \/ UpdateCallsOf(ListLengths, Priorities)

SpecUpdate == InitUpdate /\ [][NextUpdate]_vars

\* The plain ReplayBuffer under push, sample_with_indices and len; the
\* prioritised buffer stands by.
PlainTransitions == {TrA, TrB}

\* random.sample(range(len), batch_size): batch_size indices, no two equal;
\* a batch_size above len raises.
SampleIndices(n, len_) ==
    IF n > len_ THEN {[j \in 1..n |-> 0]}
    ELSE {q \in SeqsOfLen(0..(len_ - 1), n) :
             \A i, j \in 1..n : i # j => q[i] # q[j]}

InitPlain ==
    /\ InitBuffer(1, 0)
    /\ \E cap \in Capacities : rb = ReplayBuffer_init(cap)

NextPlain ==
    \/ \E t \in PlainTransitions : ReplayBuffer_push(t)
    \/ \E n \in ListLengths :
          \E indices \in SampleIndices(n, ListLen(rb.buffer)) :
             sample_with_indices(indices)
    \/ ReplayBuffer_len

SpecPlain == InitPlain /\ [][NextPlain]_vars

\* The buffer under every method of the class.
FindCalls == \E k \in 0..(MaxPriority * PDen) : find_prefix_sum_idx_call(k, PDen)

InitFrame == \E cap \in {2, 3} : InitBuffer(cap, 1) /\ rb = ReplayBuffer_init(1)

NextFrame ==
    \/ push(TrA)
    \/ UpdateCalls(Priorities)
    \/ SampleCalls(0..(RandomGrid - 1), RandomGrid)
    \/ FindCalls
    \/ is_full
    \/ len

SpecFrame == InitFrame /\ [][NextFrame]_vars

\* The buffer on leaves so close that their quotient is no float32: the
\* priorities 2^(SingleBits + 2) and the next integer, beside 0 and 1.
NearPriority == Pow(2, SingleBits + 2)

InitWeights == \E cap \in {2, 3} : InitBuffer(cap, 1) /\ rb = ReplayBuffer_init(1)

NextWeights ==
    \/ push(TrA)
    \/ UpdateCalls({0, 1, NearPriority, NearPriority + 1})
    \/ SampleCalls(0..(RandomGrid - 1), RandomGrid)

SpecWeights == InitWeights /\ [][NextWeights]_vars

----------------------------------------------------------------------------
(* Reading the trees slot by slot.                                         *)

\* The sum-tree and min-tree leaves of slot i.
SumLeaf(i) == priority_sum[i + capacity]
MinLeaf(i) == priority_min[i + capacity]

\* The sum of the sum-tree leaves of the slots 0 .. i-1.
RECURSIVE PrefixSum(_)
PrefixSum(i) == IF i = 0 THEN 0 ELSE PrefixSum(i - 1) + SumLeaf(i - 1)

\* The least min-tree leaf of the slots 0 .. i-1 (Inf when there is none).
RECURSIVE PrefixMin(_)
PrefixMin(i) ==
    IF i = 0 THEN Inf
    ELSE LET m == PrefixMin(i - 1)
         IN IF MinLeaf(i - 1) < m THEN MinLeaf(i - 1) ELSE m

\* The slots in the order the leaves hang under node, left to right.
RECURSIVE LeafOrder(_)
LeafOrder(node) ==
    IF node >= capacity THEN <<node - capacity>>
    ELSE LeafOrder(2 * node) \o LeafOrder(2 * node + 1)

\* The sum of the sum-tree leaves of the first k slots of the sequence order.
RECURSIVE OrderSum(_, _)
OrderSum(order, k) ==
    IF k = 0 THEN 0 ELSE OrderSum(order, k - 1) + SumLeaf(order[k])

IsPowerOfTwo(n) == \E e \in 0..n : Pow(2, e) = n

\* The numerators k of the prefix sums k / PDen in [0, _sum) that are floats.
PrefixPoints == {k \in 0..(_sum * PDen - 1) : Fl(k) = k}

\* A step of push: one more transition in the history.
PushStep == Len(pushed') = Len(pushed) + 1

\* The sum-tree leaves of the occupied slots, and the largest of them.
OccupiedLeaves == {SumLeaf(i) : i \in 0..(size - 1)}
MaxLeaf == Largest(OccupiedLeaves)

\* A step of sample(batch_size, beta) that returned: what it returned is
\* what lines 170-182 make of the indexes drawn, with this beta.
SampleReturned(beta) ==
    /\ op' = "sample"
    /\ ret'.kind = "samples"
    /\ UNCHANGED <<priority_sum, priority_min, size, data>>
    /\ ret' = SampleWeights(ret'.indexes, beta)

\* (_min() / leaf) ** beta as the float32 array holds it.
MinOverLeaf(leaf, beta) == Single(Frac(Pow(_min, beta), Pow(leaf, beta)))

----------------------------------------------------------------------------
(* C1.  Tree invariant: in every state reached by push and                 *)
(* update_priorities, every internal node 1 .. capacity-1 of the sum tree  *)
(* is the sum of its two children and every internal node of the min tree  *)
(* is the smaller of its two children.                                     *)

\* C1: every internal node is the sum, and the minimum, of its children.
C1_TreeInvariant ==
    \A n \in 1..(capacity - 1) :
        /\ priority_sum[n] = Fl(priority_sum[2 * n] + priority_sum[2 * n + 1])
        /\ priority_min[n] <= priority_min[2 * n]
        /\ priority_min[n] <= priority_min[2 * n + 1]
        /\ priority_min[n] \in {priority_min[2 * n], priority_min[2 * n + 1]}

\* A capacity that is no power of two, full, with three different leaves.
C1_Witness ==
    /\ capacity = 3
    /\ size = 3
    /\ op = "update_priorities"
    /\ Cardinality({SumLeaf(i) : i \in 0..2}) = 3

----------------------------------------------------------------------------
(* C3.  Root aggregates: _sum() is the sum of the leaves of the occupied   *)
(* slots (the others hold 0) and _min() is the least leaf of the occupied  *)
(* slots, +infinity when the buffer is empty.                              *)

----------------------------------------------------------------------------
(* C2.  Locate correctness.  As claimed: for every capacity, power of two  *)
(* or not, find_prefix_sum_idx(p) with 0 <= p < _sum() is the slot i with  *)
(* (sum of the leaves of slots 0..i-1) <= p < (sum of the leaves of slots  *)
(* 0..i).  The code does this with the slots taken in the order their      *)
(* leaves hang in the tree, which is the order 0, 1, .. only when capacity *)
(* is a power of two.                                                      *)

\* find_prefix_sum_idx inverts the running sum of the leaves taken in order.
LocatesIn(order) ==
    \A k \in PrefixPoints :
        LET i == find_prefix_sum_idx(k, PDen)
        IN \E j \in 1..Len(order) :
              /\ order[j] = i
              /\ OrderSum(order, j - 1) * PDen <= k
              /\ k < OrderSum(order, j) * PDen

SlotOrder == [j \in 1..capacity |-> j - 1]

----------------------------------------------------------------------------
(* C10.  Sampling never yields an unwritten slot: when _sum() > 0, for     *)
(* every p with 0 <= p < _sum(), find_prefix_sum_idx(p) is a slot below    *)
(* size whose sum-tree leaf is positive; so is every index sample returns. *)
(* Where a sum of the tree was rounded up, a p just below _sum() survives  *)
(* the subtractions of the descent and ends on a leaf that holds 0.        *)

\* C10: every located slot is occupied and has a positive leaf.
C10_LocatesOccupied ==
    /\ \A k \in PrefixPoints :
          LET i == find_prefix_sum_idx(k, PDen)
          IN i \in 0..(size - 1) /\ SumLeaf(i) > 0
    /\ (op = "sample" /\ ret.kind = "samples") =>
          \A j \in 1..Len(ret.indexes) :
              /\ ret.indexes[j] \in 0..(size - 1)
              /\ SumLeaf(ret.indexes[j]) > 0

----------------------------------------------------------------------------
(* C4.  Weight bound: a sample call on a non-empty buffer, in a state      *)
(* reached by push and update_priorities with priorities >= 0, completes   *)
(* and returns weights w with 0 < w <= 1.                                  *)

\* C4: a sample of a non-empty buffer returns, with weights in (0, 1].
C4_WeightBound ==
    (op = "sample" /\ size >= 1) =>
        /\ ret.kind = "samples"
        /\ \A j \in 1..Len(ret.weights) :
              /\ FracLt(<<0, 1>>, ret.weights[j])
              /\ FracLe(ret.weights[j], <<1, 1>>)

----------------------------------------------------------------------------
(* C6.  max_priority ratchet: max_priority starts at 1, never decreases in *)
(* any step, and is always the largest of 1 and the priorities passed to   *)
(* update_priorities so far.                                               *)

\* C6: max_priority starts at 1, is the largest of 1 and the priorities
\* passed so far, and no step lowers it.
C6_MaxPriorityRatchet ==
    /\ max_priority = 1
    /\ [](max_priority = (IF max_passed > 1 THEN max_passed ELSE 1))
    /\ [][max_priority' >= max_priority]_vars

\* The maximum was passed once and no slot carries it any more.
C6_Witness ==
    /\ alpha = 1
    /\ max_priority = 2
    /\ size = capacity
    /\ Len(pushed) > capacity
    /\ \A i \in 0..(size - 1) : SumLeaf(i) < 2
    /\ op = "update_priorities"

----------------------------------------------------------------------------
(* C5.  Ring overwrite.  As claimed: after capacity + k pushes (k >= 1) on *)
(* a fresh buffer, size = capacity and slot j holds the most recent pushed *)
(* transition whose 0-based push number is congruent to j mod capacity, so *)
(* the oldest retained transition is at next_idx and the newest at         *)
(* (next_idx - 1) mod capacity.  The code stores each transition through   *)
(* the dtypes of its columns (reward as float32), so a slot holds the      *)
(* stored row of that transition, not always the transition as pushed.     *)

\* The 1-based position in pushed of the last push that wrote slot j.
LastPushTo(j) ==
    Largest({k \in 1..Len(pushed) : (k - 1) % capacity = j})

\* C5 as claimed: after a wrap the slots hold the last capacity transitions
\* as pushed, in cursor order.
C5_RingHoldsPushed ==
    Len(pushed) > capacity =>
        /\ size = capacity
        /\ \A j \in 0..(capacity - 1) : data[j] = pushed[LastPushTo(j)]
        /\ data[next_idx] = pushed[Len(pushed) - capacity + 1]
        /\ data[(next_idx + capacity - 1) % capacity] = pushed[Len(pushed)]

\* C5 as amended: the slots hold the stored rows (each field cast to its
\* column's dtype) of the last capacity transitions, in cursor order.
C5_RingHoldsStored ==
    Len(pushed) > capacity =>
        /\ size = capacity
        /\ \A j \in 0..(capacity - 1) :
              data[j] = StoredRow(pushed[LastPushTo(j)])
        /\ data[next_idx] = StoredRow(pushed[Len(pushed) - capacity + 1])
        /\ data[(next_idx + capacity - 1) % capacity] =
              StoredRow(pushed[Len(pushed)])

\* Capacity 3 after five pushes of which the retained three all differ.
C5_Witness ==
    /\ capacity = 3
    /\ Len(pushed) = 5
    /\ op = "push"
    /\ Cardinality({data[j] : j \in 0..2}) = 3
    /\ pushed[1] # pushed[4]

----------------------------------------------------------------------------
(* C8.  Push cursor and size: a push writes at the slot next_idx held      *)
(* before the call, then next_idx = (next_idx + 1) mod capacity and        *)
(* size = min(capacity, size + 1); so after n pushes size = min(n,         *)
(* capacity), next_idx = n mod capacity, 0 <= next_idx < capacity,         *)
(* 0 <= size <= capacity, len() is size and is_full() says n >= capacity.  *)

\* C8: size, cursor, len and is_full after n pushes.
C8_AfterPushes ==
    LET n == Len(pushed)
    IN /\ size = (IF n < capacity THEN n ELSE capacity)
       /\ next_idx = n % capacity
       /\ 0 <= next_idx /\ next_idx < capacity
       /\ 0 <= size /\ size <= capacity
       /\ op = "len" => ret = IntValue(size)
       /\ op = "is_full" => ret = BoolValue(n >= capacity)

\* C8: what one push does to the slot at the cursor, the cursor and the size.
C8_PushWritesAtCursor ==
    PushStep =>
        /\ data'[next_idx] = StoredRow(pushed'[Len(pushed')])
        /\ next_idx' = (next_idx + 1) % capacity
        /\ size' = (IF size + 1 < capacity THEN size + 1 ELSE capacity)

\* C8: both, in every state and at every step.
C8_PushCursorAndSize ==
    /\ []C8_AfterPushes
    /\ [][C8_PushWritesAtCursor]_vars

\* is_full answers TRUE on a buffer whose cursor has wrapped to a slot
\* other than 0.
C8_Witness ==
    /\ capacity = 3
    /\ Len(pushed) = 4
    /\ next_idx = 1
    /\ op = "is_full"
    /\ ret = BoolValue(TRUE)

----------------------------------------------------------------------------
(* C9.  Push return value.  As claimed: push returns the slot index at     *)
(* which it wrote (next_idx before the call).  The code's push has no      *)
(* return statement.                                                       *)

\* C9 as claimed, read in the state push leaves: push returned the slot it
\* wrote.
C9_PushReturnsSlot ==
    op = "push" => ret = IntValue((next_idx + capacity - 1) % capacity)

\* C9 as amended: push returns None; the slot it wrote, and the only slot it
\* changed, is the one next_idx named before the call.
C9_PushReturnsNone ==
    [][PushStep =>
          /\ ret' = None
          /\ data'[next_idx] = StoredRow(pushed'[Len(pushed')])
          /\ \A j \in 0..(capacity - 1) : j # next_idx => data'[j] = data[j]
      ]_vars

\* A push that overwrote slot 1 of a full buffer with another transition.
C9_Witness ==
    /\ op = "push"
    /\ ret = None
    /\ capacity = 2
    /\ Len(pushed) = 4
    /\ data[1] = StoredRow(pushed[4])
    /\ pushed[4] # pushed[2]

----------------------------------------------------------------------------
(* C7.  Push seeding: every push, into a fresh slot or over an occupied    *)
(* one, sets the leaf of the written slot to max_priority ** alpha in the  *)
(* sum tree and in the min tree, whatever the slot held; with capacity 4,  *)
(* alpha 1 and leaves 1, 2, 3, 4 the fifth push overwrites slot 0 with 4   *)
(* and _sum() becomes 13.                                                  *)

\* C7: a push sets the written slot's two leaves to max_priority ** alpha
\* and leaves the other leaves and max_priority alone.
C7_PushSeedsLeaf ==
    PushStep =>
        /\ priority_sum'[next_idx + capacity] = Pow(max_priority, alpha)
        /\ priority_min'[next_idx + capacity] = Pow(max_priority, alpha)
        /\ max_priority' = max_priority
        /\ \A j \in 0..(capacity - 1) :
              j # next_idx =>
                 /\ priority_sum'[j + capacity] = priority_sum[j + capacity]
                 /\ priority_min'[j + capacity] = priority_min[j + capacity]

\* C7: the fifth push of the scenario.
C7_ScenarioFifthPush ==
    ( /\ PushStep
      /\ capacity = 4 /\ alpha = 1 /\ Len(pushed) = 4
      /\ \A j \in 0..3 : priority_sum[j + capacity] = j + 1 ) =>
        /\ next_idx = 0
        /\ priority_sum'[capacity] = 4
        /\ priority_min'[capacity] = 4
        /\ priority_sum'[1] = 13

\* C7: both, at every step.
C7_PushSeeding == [][C7_PushSeedsLeaf /\ C7_ScenarioFifthPush]_vars

\* The scenario's state after the fifth push.
C7_Witness ==
    /\ capacity = 4 /\ alpha = 1 /\ Len(pushed) = 5
    /\ op = "push"
    /\ max_priority = 4
    /\ <<SumLeaf(0), SumLeaf(1), SumLeaf(2), SumLeaf(3)>> = <<4, 2, 3, 4>>
    /\ _sum = 13

----------------------------------------------------------------------------
(* C11.  Highest-priority weight.  As claimed: in a sample call with       *)
(* beta > 0 on a non-empty buffer with priorities > 0, a sampled index     *)
(* whose leaf is the largest of the occupied slots gets weight exactly 1.  *)
(* The code divides by the weight of the smallest leaf, so the largest     *)
(* leaf gets the smallest weight, (_min() / leaf) ** beta.                 *)

\* C11 as claimed: a sampled slot with the largest leaf has weight 1.
C11_LargestLeafWeightOne ==
    [][\A beta \in Betas \ {0} :
          ( /\ SampleReturned(beta)
            /\ size >= 1
            /\ \A i \in 0..(size - 1) : SumLeaf(i) > 0 ) =>
             \A j \in 1..Len(ret'.indexes) :
                SumLeaf(ret'.indexes[j]) = MaxLeaf =>
                   ret'.weights[j] = <<1, 1>>
      ]_vars

\* C11 as amended: a sampled slot with the largest leaf has the weight
\* (_min() / leaf) ** beta, which is at most 1, no larger than the weight of
\* any occupied slot, and 1 when the largest leaf is also the smallest.
C11_LargestLeafWeightLeast ==
    [][\A beta \in Betas \ {0} :
          ( /\ SampleReturned(beta)
            /\ size >= 1
            /\ \A i \in 0..(size - 1) : SumLeaf(i) > 0 ) =>
             \A j \in 1..Len(ret'.indexes) :
                SumLeaf(ret'.indexes[j]) = MaxLeaf =>
                   /\ ret'.weights[j] = MinOverLeaf(MaxLeaf, beta)
                   /\ FracLe(ret'.weights[j], <<1, 1>>)
                   /\ \A leaf \in OccupiedLeaves :
                         FracLe(ret'.weights[j], MinOverLeaf(leaf, beta))
                   /\ MaxLeaf = _min => ret'.weights[j] = <<1, 1>>
      ]_vars

\* A sample of a full buffer of capacity 3 that drew the slot with the
\* largest leaf, the leaves not all equal.
C11_Witness ==
    /\ op = "sample"
    /\ ret.kind = "samples"
    /\ Len(ret.indexes) = 1
    /\ capacity = 3
    /\ size = 3
    /\ Cardinality(OccupiedLeaves) = 2
    /\ \A i \in 0..(size - 1) : SumLeaf(i) > 0
    /\ SumLeaf(ret.indexes[1]) = MaxLeaf
    /\ FracLt(ret.weights[1], <<1, 1>>)

----------------------------------------------------------------------------
(* C12.  Minimum-priority weight.  As claimed: in a sample call with       *)
(* beta > 0 on a non-empty buffer with priorities > 0, a sampled index     *)
(* gets weight exactly 1 if and only if its leaf equals _min(), and every  *)
(* other sampled index a weight strictly below 1.  The weights are stored  *)
(* as float32, so a leaf just above _min() gets weight 1 as well.          *)

\* C12 as claimed: weight 1 exactly for the leaves equal to _min().
C12_WeightOneIffMin ==
    [][\A beta \in Betas \ {0} :
          ( /\ SampleReturned(beta)
            /\ size >= 1
            /\ \A i \in 0..(size - 1) : SumLeaf(i) > 0 ) =>
             \A j \in 1..Len(ret'.indexes) :
                LET leaf == SumLeaf(ret'.indexes[j])
                IN /\ (ret'.weights[j] = <<1, 1>>) <=> (leaf = _min)
                   /\ leaf # _min => FracLt(ret'.weights[j], <<1, 1>>)
      ]_vars

\* C12 as amended: a sampled slot has the weight (_min() / leaf) ** beta as
\* float32 holds it; that is 1 when the leaf equals _min(), at most 1 for
\* every slot, and below 1 when (_min() / leaf) ** beta is below
\* 1 - 2^-(SingleBits + 1), where float32 rounds to 1.
C12_WeightOneIfMin ==
    [][\A beta \in Betas \ {0} :
          ( /\ SampleReturned(beta)
            /\ size >= 1
            /\ \A i \in 0..(size - 1) : SumLeaf(i) > 0 ) =>
             \A j \in 1..Len(ret'.indexes) :
                LET leaf == SumLeaf(ret'.indexes[j])
                    w == ret'.weights[j]
                IN /\ w = MinOverLeaf(leaf, beta)
                   /\ leaf = _min => w = <<1, 1>>
                   /\ FracLe(w, <<1, 1>>)
                   /\ Pow(_min, beta) * Pow(2, SingleBits + 1) <
                         Pow(leaf, beta) * (Pow(2, SingleBits + 1) - 1)
                      => FracLt(w, <<1, 1>>)
      ]_vars

\* A sample of a buffer of size 3 that drew a slot whose leaf is the next
\* integer above _min(), and gave it weight 1.
C12_Witness ==
    /\ op = "sample"
    /\ ret.kind = "samples"
    /\ Len(ret.indexes) = 1
    /\ _min = NearPriority
    /\ SumLeaf(ret.indexes[1]) = NearPriority + 1
    /\ ret.weights[1] = <<1, 1>>
    /\ size = 3

----------------------------------------------------------------------------
(* C13.  alpha = 0 gives uniform mass: with alpha = 0, after any sequence  *)
(* of push and update_priorities calls with priorities >= 0, priority 0    *)
(* included, every occupied slot's leaf is 1 in both trees, and _sum() is  *)
(* size and _min() is 1 whenever size >= 1.                                *)

\* C13: with alpha = 0 every occupied leaf is 1, the sum is size and the
\* minimum is 1.
C13_AlphaZeroUniform ==
    alpha = 0 =>
        /\ \A i \in 0..(size - 1) : SumLeaf(i) = 1 /\ MinLeaf(i) = 1
        /\ size >= 1 => (_sum = size /\ _min = 1)

\* alpha = 0 on a full buffer of capacity 3, after updates of which one
\* passed the priority 2.
C13_Witness ==
    /\ alpha = 0
    /\ capacity = 3
    /\ size = 3
    /\ op = "update_priorities"
    /\ max_priority = 2
    /\ max_passed = 2
    /\ _sum = 3

----------------------------------------------------------------------------
(* C14.  beta = 0 disables correction: every weight a sample(batch_size,   *)
(* 0) call returns on a non-empty buffer is exactly 1, whatever the        *)
(* priorities stored, priority 0 included.                                 *)

\* C14: every weight returned by sample(batch_size, 0) is 1.
C14_BetaZeroWeightsOne ==
    [][(SampleReturned(0) /\ size >= 1) =>
          \A j \in 1..Len(ret'.weights) : ret'.weights[j] = <<1, 1>>
      ]_vars

\* A sample that returned with a leaf 0 among the occupied ones, which only
\* beta = 0 does, and drew a slot whose leaf is not the largest.
C14_Witness ==
    /\ op = "sample"
    /\ ret.kind = "samples"
    /\ Len(ret.indexes) = 1
    /\ size = 3
    /\ _min = 0
    /\ SumLeaf(ret.indexes[1]) = 1
    /\ MaxLeaf = NearPriority + 1
    /\ ret.weights[1] = <<1, 1>>

----------------------------------------------------------------------------
(* C15.  Reference scenario: with capacity 4 and alpha 1, four pushes give *)
(* _sum() = 4; then update_priorities([0,1,2,3], [1,2,3,4]) gives          *)
(* _sum() = 10 and _min() = 1; then find_prefix_sum_idx(0.5) is 0 and      *)
(* find_prefix_sum_idx(9.9) is 3, the slots owning [0,1), [1,3), [3,6)     *)
(* and [6,10).                                                             *)

\* 9.9 as a float: the nearest multiple of 1/128 that MantBits bits hold.
NinePointNine == <<Fl(1267), 128>>

\* The slot that owns the prefix sum k / PDen in the scenario.
ScenarioSlot(k) ==
    IF k < 1 * PDen THEN 0
    ELSE IF k < 3 * PDen THEN 1
    ELSE IF k < 6 * PDen THEN 2
    ELSE 3

\* C15: the four pushes of the scenario.
C15_FourPushes ==
    (capacity = 4 /\ alpha = 1 /\ Len(pushed) = 4 /\ max_passed = 0) =>
        _sum = 4

\* C15: the update of the scenario and the prefix sums located after it.
C15_UpdateThenLocate ==
    ( /\ capacity = 4 /\ alpha = 1 /\ Len(pushed) = 4 /\ max_passed = 0
      /\ ScenarioUpdate ) =>
        /\ priority_sum'[1] = 10
        /\ priority_min'[1] = 1
        /\ Descend(priority_sum', 1, 1, 2) = 0
        /\ Descend(priority_sum', 1, NinePointNine[1], NinePointNine[2]) = 3
        /\ \A k \in 0..(10 * PDen - 1) :
              Descend(priority_sum', 1, k, PDen) = ScenarioSlot(k)

\* C15: both.
C15_ReferenceScenario ==
    /\ []C15_FourPushes
    /\ [][C15_UpdateThenLocate]_vars

\* The scenario's state after its update.
C15_Witness ==
    /\ capacity = 4 /\ alpha = 1 /\ Len(pushed) = 4
    /\ op = "update_priorities"
    /\ max_passed = 4
    /\ <<SumLeaf(0), SumLeaf(1), SumLeaf(2), SumLeaf(3)>> = <<1, 2, 3, 4>>
    /\ <<MinLeaf(0), MinLeaf(1), MinLeaf(2), MinLeaf(3)>> = <<1, 2, 3, 4>>
    /\ _sum = 10
    /\ _min = 1

----------------------------------------------------------------------------
(* C16.  update_priorities postcondition: after update_priorities(indexes, *)
(* priorities) with indexes below size and priorities >= 0, the leaf of    *)
(* every index that appears is, in both trees, priority ** alpha of the    *)
(* last pair that names it, and the leaves of the slots not named are      *)
(* unchanged.                                                              *)

\* The positions of the pairs of zip(indexes, priorities) that name slot i.
PairsNaming(indexes, priorities, i) ==
    {k \in 1..Len(Zip(indexes, priorities)) : indexes[k] = i}

\* C16, for one call on the buffer as it is.
UpdatePost(indexes, priorities) ==
    LET st == UpdateResult(indexes, priorities)
    IN \A i \in 0..(capacity - 1) :
          LET ks == PairsNaming(indexes, priorities, i)
          IN IF ks = {}
             THEN /\ st.psum[i + capacity] = priority_sum[i + capacity]
                  /\ st.pmin[i + capacity] = priority_min[i + capacity]
             ELSE /\ st.psum[i + capacity] = Pow(priorities[Largest(ks)], alpha)
                  /\ st.pmin[i + capacity] = Pow(priorities[Largest(ks)], alpha)

\* C16: on every buffer reached, every call of update_priorities on lists of
\* up to two entries leaves the leaves so.
C16_UpdatePostcondition ==
    \A n \in ListLengths, m \in ListLengths :
       \A indexes \in SeqsOfLen(0..(size - 1), n),
          priorities \in SeqsOfLen(Priorities, m) :
             UpdatePost(indexes, priorities)

\* A full buffer of capacity 3 with alpha 2 that update_priorities has left
\* with the leaves 4, 1, 0.
C16_Witness ==
    /\ capacity = 3
    /\ alpha = 2
    /\ size = 3
    /\ op = "update_priorities"
    /\ Len(pushed) = 3
    /\ max_priority = 2
    /\ SumLeaf(0) = 4 /\ SumLeaf(1) = 1 /\ SumLeaf(2) = 0

----------------------------------------------------------------------------
(* C17.  Frame conditions: the five data columns, next_idx and size are    *)
(* changed only by push; update_priorities leaves them unchanged; sample,  *)
(* find_prefix_sum_idx, is_full and len leave data, next_idx, size, both   *)
(* trees and max_priority unchanged.                                       *)

\* C17, for one step.
C17_Frame ==
    /\ op' # "push" => UNCHANGED <<data, next_idx, size>>
    /\ op' = "update_priorities" => UNCHANGED <<data, next_idx, size>>
    /\ op' \in {"sample", "find_prefix_sum_idx", "is_full", "len"} =>
          UNCHANGED <<data, next_idx, size, priority_sum, priority_min,
                      max_priority>>

\* C17: every step keeps to the frame.
C17_FrameConditions == [][C17_Frame]_vars

\* A sample that drew a slot of a full buffer whose leaves are 2, 1, 0 and
\* left them there.
C17_Witness ==
    /\ capacity = 3
    /\ size = 3
    /\ op = "sample"
    /\ ret.kind = "samples"
    /\ Len(ret.indexes) = 1
    /\ <<SumLeaf(0), SumLeaf(1), SumLeaf(2)>> = <<2, 1, 0>>
    /\ <<MinLeaf(0), MinLeaf(1), MinLeaf(2)>> = <<2, 1, 0>>
    /\ _sum = 3
    /\ max_priority = 2
    /\ next_idx = 0

----------------------------------------------------------------------------
(* C18.  Unoccupied leaves: in every state reached by push and             *)
(* update_priorities, every slot i with size <= i < capacity has the leaf  *)
(* 0 in the sum tree and +infinity in the min tree, and every occupied     *)
(* slot has the same finite value in its two leaves.                       *)

\* C18: unoccupied leaves are 0 and inf; occupied leaves agree and are finite.
C18_UnoccupiedLeaves ==
    /\ \A i \in size..(capacity - 1) : SumLeaf(i) = 0 /\ MinLeaf(i) = Inf
    /\ \A i \in 0..(size - 1) : SumLeaf(i) = MinLeaf(i) /\ MinLeaf(i) < Inf

\* A half-filled buffer of capacity 4 after an update that left an occupied
\* slot with the leaf 0.
C18_Witness ==
    /\ capacity = 4
    /\ size = 2
    /\ op = "update_priorities"
    /\ SumLeaf(0) = 4 /\ MinLeaf(0) = 4
    /\ SumLeaf(1) = 0 /\ MinLeaf(1) = 0
    /\ SumLeaf(2) = 0 /\ MinLeaf(2) = Inf

----------------------------------------------------------------------------
(* C19.  New items dominate: in every state reached by push and            *)
(* update_priorities, every occupied leaf is at most max_priority **       *)
(* alpha; so right after a push the leaf of the pushed slot is at least    *)
(* the leaf of every other occupied slot.                                  *)

\* C19: no occupied leaf is above max_priority ** alpha.
C19_LeavesBelowMax ==
    \A i \in 0..(size - 1) : SumLeaf(i) <= Pow(max_priority, alpha)

\* C19: the slot a push wrote has the largest leaf.
C19_PushedLeafLargest ==
    PushStep =>
        \A j \in 0..(size' - 1) :
            priority_sum'[j + capacity] <= priority_sum'[next_idx + capacity]

\* C19: both.
C19_NewItemsDominate ==
    /\ []C19_LeavesBelowMax
    /\ [][C19_PushedLeafLargest]_vars

\* A push over slot 0 of a full buffer of capacity 3 after the maximum 2
\* was passed: the new leaf is 4 and the other two are smaller and differ.
C19_Witness ==
    /\ capacity = 3
    /\ alpha = 2
    /\ op = "push"
    /\ Len(pushed) = 4
    /\ max_priority = 2
    /\ SumLeaf(0) = 4
    /\ SumLeaf(1) < 4
    /\ SumLeaf(2) < SumLeaf(1)

----------------------------------------------------------------------------
(* C20.  Plain ReplayBuffer ring behaviour: after n pushes len(buffer) is  *)
(* min(n, capacity) and position is n mod capacity, no entry is None, the  *)
(* k-th push (0-based) is at list index k mod capacity, so the list holds  *)
(* the last min(n, capacity) pushed tuples, and the indices of             *)
(* sample_with_indices address stored transitions.                         *)

\* The 1-based position in pushed of the last push that wrote list index j.
LastPlainPushTo(j) ==
    Largest({k \in 1..Len(pushed) : (k - 1) % rb.capacity = j})

\* C20: length, position, entries and sampled indices after n pushes.
C20_PlainRing ==
    LET n == Len(pushed)
        len_ == ListLen(rb.buffer)
    IN /\ len_ = (IF n < rb.capacity THEN n ELSE rb.capacity)
       /\ DOMAIN rb.buffer = 0..(len_ - 1)
       /\ rb.position = n % rb.capacity
       /\ \A j \in 0..(len_ - 1) :
             /\ rb.buffer[j] # None
             /\ rb.buffer[j] = pushed[LastPlainPushTo(j)]
       /\ op = "ReplayBuffer.len" => ret = IntValue(len_)
       /\ (op = "ReplayBuffer.sample_with_indices"
              /\ ret.kind = "state_indices") =>
             \A j \in 1..Len(ret.indices) :
                /\ ret.indices[j] \in 0..(len_ - 1)
                /\ rb.buffer[ret.indices[j]] \in PlainTransitions
                /\ ret.state[j] = rb.buffer[ret.indices[j]].obs

\* Two indices drawn from a list of capacity 3 that has wrapped, holding
\* two different tuples.
C20_Witness ==
    /\ rb.capacity = 3
    /\ Len(pushed) = 5
    /\ rb.position = 2
    /\ op = "ReplayBuffer.sample_with_indices"
    /\ ret.kind = "state_indices"
    /\ Len(ret.indices) = 2
    /\ rb.buffer[ret.indices[1]] # rb.buffer[ret.indices[2]]
    /\ pushed[2] # pushed[5]

====
